---- MODULE Spec2Model ----
(***************************************************************************)
(* crumbs: a file-backed, append-only memory journal with handoff          *)
(* checkpoints.  The model follows src/src/main.rs (the commands) and      *)
(* src/src/csv_store.rs (the two CSV logs, ordering and id resolution).    *)
(*                                                                         *)
(* Strings the code computes on (ids, texts, timestamps) are sequences of  *)
(* one-character strings; Option<T> is <<>> for None and <<x>> for Some(x).*)
(***************************************************************************)
EXTENDS Integers, Sequences, FiniteSets, TLC

VARIABLES memories_csv, handoffs_csv, clock, out

vars == <<memories_csv, handoffs_csv, clock, out>>

(***************************************************************************)
(* Bounds of the exploration.                                              *)
(***************************************************************************)
\* most rows the memory log grows to
MaxMem == 3
\* most rows the checkpoint log grows to
MaxHand == 3
\* the wall clock is read as one of the instants ClockStart .. ClockStart + MaxTicks
MaxTicks == 2
\* largest value of --window and of --limit that is tried
MaxWindow == 2
\* the generator's random digit indices are drawn from 0 .. MaxDraw - 1
MaxDraw == 2

(***************************************************************************)
(* Program constants.                                                      *)
(***************************************************************************)
INITIAL_LEN == 4
MAX_RETRIES_PER_LEN == 64
MAX_TEXT_CHARS == 100

DIGITS ==
    << "0", "1", "2", "3", "4", "5", "6", "7", "8", "9",
       "a", "b", "c", "d", "e", "f", "g", "h", "i", "j", "k", "l", "m",
       "n", "o", "p", "q", "r", "s", "t", "u", "v", "w", "x", "y", "z" >>

MEMORIES_HEADER == "id,kind,text,ts_utc,cwd,git_branch,git_head"
HANDOFFS_HEADER == "id,ts_utc,from_memory_id,to_memory_id,suggested_window,cwd,git_branch,git_head"

(***************************************************************************)
(* Option<T>.                                                              *)
(***************************************************************************)
None == << >>
Some(x) == << x >>
IsSome(o) == o # None
Unwrap(o) == o[1]

(***************************************************************************)
(* String helpers (str::to_ascii_lowercase, starts_with, contains).        *)
(***************************************************************************)
UpperAZ ==
    << "A", "B", "C", "D", "E", "F", "G", "H", "I", "J", "K", "L", "M",
       "N", "O", "P", "Q", "R", "S", "T", "U", "V", "W", "X", "Y", "Z" >>

UpperSet == { UpperAZ[i] : i \in 1..Len(UpperAZ) }

\* 'A'..'Z' -> 'a'..'z'
LowerOf == [ c \in UpperSet |-> DIGITS[10 + (CHOOSE i \in 1..Len(UpperAZ) : UpperAZ[i] = c)] ]

LowerChar(c) == IF c \in UpperSet THEN LowerOf[c] ELSE c

to_ascii_lowercase(s) == [i \in 1..Len(s) |-> LowerChar(s[i])]

starts_with(s, p) == Len(p) <= Len(s) /\ SubSeq(s, 1, Len(p)) = p

contains(s, c) == \E i \in 1..Len(s) : s[i] = c

(***************************************************************************)
(* String ordering.  Rust compares String byte-wise; on the characters of  *)
(* DIGITS the byte order is the order of DIGITS ('0'..'9' < 'a'..'z').     *)
(***************************************************************************)
DigitSet == { DIGITS[i] : i \in 1..Len(DIGITS) }

OrdOf == [ c \in DigitSet |-> CHOOSE i \in 1..Len(DIGITS) : DIGITS[i] = c ]

CharOrd(c) == OrdOf[c]

MinNat(a, b) == IF a <= b THEN a ELSE b

\* a < b, lexicographically
str_lt(a, b) ==
    \E k \in 1..(MinNat(Len(a), Len(b)) + 1) :
        /\ \A j \in 1..(k - 1) : a[j] = b[j]
        /\ \/ k > Len(a) /\ k <= Len(b)
           \/ k <= Len(a) /\ k <= Len(b) /\ CharOrd(a[k]) < CharOrd(b[k])

str_le(a, b) == a = b \/ str_lt(a, b)

(***************************************************************************)
(* Utc::now().to_rfc3339_opts(SecondsFormat::Millis, true): every field of *)
(* the timestamp is zero-padded to a fixed width, modelled as a two-digit  *)
(* decimal rendering of the instant.                                       *)
(***************************************************************************)
\* first instant the wall clock can show
ClockStart == 8

Instants == ClockStart..(ClockStart + MaxTicks)

to_rfc3339(now) == << DIGITS[((now \div 10) % 10) + 1], DIGITS[(now % 10) + 1] >>

(***************************************************************************)
(* serde/csv field conversions.  An Option<String> is written as the empty *)
(* field when None and read back as None when the field is empty; a usize  *)
(* is written in decimal.                                                  *)
(***************************************************************************)
ser_opt(o) == IF o = None THEN << >> ELSE Unwrap(o)

de_opt(f) == IF f = << >> THEN None ELSE Some(f)

RECURSIVE ser_usize(_)
ser_usize(n) ==
    IF n < 10 THEN << DIGITS[n + 1] >>
    ELSE ser_usize(n \div 10) \o << DIGITS[(n % 10) + 1] >>

RECURSIVE de_usize(_)
de_usize(f) ==
    IF Len(f) = 0 THEN 0
    ELSE 10 * de_usize(SubSeq(f, 1, Len(f) - 1)) + (CharOrd(f[Len(f)]) - 1)

\* struct MemoryRecord -> one CSV row (columns in header order)
ser_memory(rec) ==
    [ id |-> rec.id, kind |-> rec.kind, text |-> rec.text, ts_utc |-> rec.ts_utc,
      cwd |-> rec.cwd, git_branch |-> ser_opt(rec.git_branch),
      git_head |-> ser_opt(rec.git_head) ]

de_memory(row) ==
    [ id |-> row.id, kind |-> row.kind, text |-> row.text, ts_utc |-> row.ts_utc,
      cwd |-> row.cwd, git_branch |-> de_opt(row.git_branch),
      git_head |-> de_opt(row.git_head) ]

\* struct HandoffRecord -> one CSV row
ser_handoff(rec) ==
    [ id |-> rec.id, ts_utc |-> rec.ts_utc,
      from_memory_id |-> ser_opt(rec.from_memory_id),
      to_memory_id |-> rec.to_memory_id,
      suggested_window |-> ser_usize(rec.suggested_window),
      cwd |-> rec.cwd, git_branch |-> ser_opt(rec.git_branch),
      git_head |-> ser_opt(rec.git_head) ]

de_handoff(row) ==
    [ id |-> row.id, ts_utc |-> row.ts_utc,
      from_memory_id |-> de_opt(row.from_memory_id),
      to_memory_id |-> row.to_memory_id,
      suggested_window |-> de_usize(row.suggested_window),
      cwd |-> row.cwd, git_branch |-> de_opt(row.git_branch),
      git_head |-> de_opt(row.git_head) ]

(***************************************************************************)
(* The backing files.  A file is absent, or holds a header line (empty if  *)
(* none was written) followed by rows.                                     *)
(***************************************************************************)
AbsentFile == [ exists |-> FALSE, header |-> "", rows |-> << >> ]

\* ensure_csv_file writing the header whatever the file holds
ensure_csv_file_rewriting(file, header) ==
    [ exists |-> TRUE, header |-> header, rows |-> << >> ]

\* ensure_csv_file: write the header when the file is absent or empty
ensure_csv_file(file, header) ==
    LET needs_init == ~file.exists \/ (file.header = "" /\ file.rows = << >>)
    IN  IF needs_init
        THEN [ exists |-> TRUE, header |-> header, rows |-> << >> ]
        ELSE file

\* append_csv_row: open for append (creating the file) and write one row
append_csv_row(file, row) ==
    [ exists |-> TRUE, header |-> file.header, rows |-> Append(file.rows, row) ]

\* ReaderBuilder::has_headers(true): the first line of the file is the header
data_rows(file) ==
    IF file.header # "" THEN file.rows
    ELSE IF file.rows = << >> THEN << >> ELSE Tail(file.rows)

read_memories(file) ==
    IF ~file.exists THEN << >>
    ELSE LET rows == data_rows(file)
         IN  [ i \in 1..Len(rows) |-> de_memory(rows[i]) ]

read_handoffs(file) ==
    IF ~file.exists THEN << >>
    ELSE LET rows == data_rows(file)
         IN  [ i \in 1..Len(rows) |-> de_handoff(rows[i]) ]

append_memory(file, rec) == append_csv_row(file, ser_memory(rec))

append_handoff(file, rec) == append_csv_row(file, ser_handoff(rec))

(***************************************************************************)
(* rows.sort_by(|a, b| b.ts_utc.cmp(&a.ts_utc)): a stable sort, newest     *)
(* first; rows with equal timestamps keep their relative order.            *)
(***************************************************************************)
\* insert x before the rows of its own timestamp
InsertDescBeforeTies(sorted, x) ==
    LET keep == { i \in 1..Len(sorted) : str_lt(x.ts_utc, sorted[i].ts_utc) }
        k == Cardinality(keep)
    IN  SubSeq(sorted, 1, k) \o << x >> \o SubSeq(sorted, k + 1, Len(sorted))

\* insert x behind every row that is not older than x
InsertDesc(sorted, x) ==
    LET keep == { i \in 1..Len(sorted) : str_le(x.ts_utc, sorted[i].ts_utc) }
        k == Cardinality(keep)
    IN  SubSeq(sorted, 1, k) \o << x >> \o SubSeq(sorted, k + 1, Len(sorted))

RECURSIVE sort_desc(_)
sort_desc(rows) ==
    IF rows = << >> THEN << >>
    ELSE InsertDesc(sort_desc(SubSeq(rows, 1, Len(rows) - 1)), rows[Len(rows)])

first_or_none(rows) == IF rows = << >> THEN None ELSE Some(rows[1])

latest_memory(memories) == first_or_none(sort_desc(memories))

latest_handoff(handoffs) == first_or_none(sort_desc(handoffs))

take(rows, n) == SubSeq(rows, 1, MinNat(n, Len(rows)))

(***************************************************************************)
(* Identifier generation.  rng is the stream of values the thread's random *)
(* generator returns to gen_range(0..36), in the order they are consumed;  *)
(* p is the position of the next unread value.                             *)
(***************************************************************************)
\* random_base36(rng, len): len digits, each DIGITS[idx]
random_base36(rng, p, len) == [ i \in 1..len |-> DIGITS[rng[p + i - 1] + 1] ]

\* no id: the stream ends before the loop returns
NoId == << >>

\* the loop of next_short_id: up to MAX_RETRIES_PER_LEN draws per length,
\* the first candidate that is not in `used` is returned.  The draws of one
\* run are looked at together: run is the number of draws the run still has,
\* held the number of whole suffixes the stream holds from place p
RECURSIVE next_short_id_loop(_, _, _, _, _, _)
next_short_id_loop(used, prefix, rng, len, tries, p) ==
    LET run == MAX_RETRIES_PER_LEN - tries
        held == (Len(rng) - p + 1) \div len
        n == MinNat(run, held)
        candidate(k) == prefix \o << "-" >> \o random_base36(rng, p + (k - 1) * len, len)
        fresh == { k \in 1..n : candidate(k) \notin used }
    IN  IF fresh # {} THEN candidate(CHOOSE k \in fresh : \A j \in fresh : k <= j)
        ELSE IF n < run THEN NoId
        ELSE next_short_id_loop(used, prefix, rng, len + 1, 0, p + n * len)

\* next_short_id comparing the candidate with the ids as they are stored
next_short_id_case_sensitive(existing_ids, prefix, rng) ==
    LET used == { existing_ids[i] : i \in 1..Len(existing_ids) }
    IN  next_short_id_loop(used, prefix, rng, INITIAL_LEN, 0, 1)

\* next_short_id that takes the first candidate whatever the store holds
next_short_id_unchecked(existing_ids, prefix, rng) ==
    next_short_id_loop({}, prefix, rng, INITIAL_LEN, 0, 1)

next_short_id(existing_ids, prefix, rng) ==
    LET used == { to_ascii_lowercase(existing_ids[i]) : i \in 1..Len(existing_ids) }
    IN  next_short_id_loop(used, prefix, rng, INITIAL_LEN, 0, 1)

ids_of(records) == [ i \in 1..Len(records) |-> records[i].id ]

next_memory_id(memories, rng) == next_short_id(ids_of(memories), << "c", "r" >>, rng)

next_handoff_id(handoffs, rng) == next_short_id(ids_of(handoffs), << "h", "f" >>, rng)

(***************************************************************************)
(* The random streams that are tried.  A suffix that is drawn is zeros     *)
(* followed by one digit index; RngOf(c, d1, d2) draws the suffix of d1    *)
(* c times and then the suffix of d2, at the length the loop has reached.  *)
(***************************************************************************)
Block(d, len) == [ i \in 1..len |-> IF i = len THEN d ELSE 0 ]

\* n times the block, one after the other
Repeat(n, block) ==
    [ i \in 1..(n * Len(block)) |-> block[((i - 1) % Len(block)) + 1] ]

RngOf(c, d1, d2) ==
    Repeat(c, Block(d1, INITIAL_LEN))
        \o Block(d2, IF c >= MAX_RETRIES_PER_LEN THEN INITIAL_LEN + 1 ELSE INITIAL_LEN)

\* the generator draws the n-th suffix: at once when n = 0, else after one draw
\* of the first suffix
SeqStreams(n) == { RngOf(IF n = 0 THEN 0 ELSE 1, 0, n) }

\* the generator draws any of the first MaxDraw suffixes at once or after one
\* other draw, or the first longer suffix after MAX_RETRIES_PER_LEN draws of
\* one suffix
RngStreams ==
    { RngOf(c, d1, d2) : c \in {0, 1}, d1 \in 0..(MaxDraw - 1), d2 \in 0..(MaxDraw - 1) }
        \cup { RngOf(MAX_RETRIES_PER_LEN, d1, 0) : d1 \in 0..(MaxDraw - 1) }

(***************************************************************************)
(* Resolver (csv_store.rs).                                                *)
(***************************************************************************)
build_prefix_candidates(id_prefix, canonical, legacy) ==
    << to_ascii_lowercase(id_prefix) >>
        \o ( IF ~contains(id_prefix, "-") /\ ~contains(id_prefix, "_")
             THEN << to_ascii_lowercase(canonical \o id_prefix),
                     to_ascii_lowercase(legacy \o id_prefix) >>
             ELSE << >> )

\* matches_any_prefix comparing the stored id as written
matches_any_prefix_case_sensitive(id, candidates) ==
    \E i \in 1..Len(candidates) : starts_with(id, candidates[i])

matches_any_prefix(id, candidates) ==
    LET id_lower == to_ascii_lowercase(id)
    IN  \E i \in 1..Len(candidates) : starts_with(id_lower, candidates[i])

\* .filter(matches_any_prefix).filter(|r| seen.insert(r.id.clone())): the rows
\* that match, without the rows whose id an earlier matching row carries
RECURSIVE filter_matches(_, _)
filter_matches(records, candidates) ==
    IF records = << >> THEN << >>
    ELSE LET init == SubSeq(records, 1, Len(records) - 1)
             r == records[Len(records)]
             before == filter_matches(init, candidates)
         IN  IF /\ matches_any_prefix(r.id, candidates)
                /\ \A i \in 1..Len(before) : before[i].id # r.id
             THEN Append(before, r)
             ELSE before

Ok(v) == [ ok |-> TRUE, val |-> v, err |-> "" ]
Err(e) == [ ok |-> FALSE, val |-> << >>, err |-> e ]

resolve_handoff(handoffs, id_prefix) ==
    LET candidates == build_prefix_candidates(id_prefix, << "h", "f", "-" >>, << "h", "_" >>)
        matches == filter_matches(handoffs, candidates)
    IN  IF matches = << >> THEN Err("no handoff matching id prefix")
        ELSE IF Len(matches) > 1 THEN Err("handoff id prefix is ambiguous")
        ELSE Ok(sort_desc(matches)[1])

\* resolve_memory_id settling for the first of several matching ids
resolve_memory_id_first_match(memories, id_prefix) ==
    LET candidates == build_prefix_candidates(id_prefix, << "c", "r", "-" >>, << "c", "_" >>)
        matches == filter_matches(memories, candidates)
    IN  IF matches = << >> THEN Err("no memory matching id prefix")
        ELSE Ok(sort_desc(matches)[1].id)

resolve_memory_id(memories, id_prefix) ==
    LET candidates == build_prefix_candidates(id_prefix, << "c", "r", "-" >>, << "c", "_" >>)
        matches == filter_matches(memories, candidates)
    IN  IF matches = << >> THEN Err("no memory matching id prefix")
        ELSE IF Len(matches) > 1 THEN Err("id prefix is ambiguous")
        ELSE Ok(sort_desc(matches)[1].id)

\* memories.iter().find(|m| m.id == id)
find_by_id(memories, id) ==
    LET hits == { i \in 1..Len(memories) : memories[i].id = id }
    IN  IF hits = {} THEN None
        ELSE Some(memories[CHOOSE i \in hits : \A j \in hits : i <= j])

show_memory(memories, id_prefix) ==
    LET id == resolve_memory_id(memories, id_prefix)
    IN  IF ~id.ok THEN id
        ELSE LET rec == find_by_id(memories, id.val)
             IN  IF rec = None THEN Err("resolve id") ELSE Ok(Unwrap(rec))

\* to_memory_row: the fields of a record as a tuple
to_memory_row(rec) ==
    << rec.id, rec.kind, rec.text, rec.ts_utc, rec.cwd, rec.git_branch, rec.git_head >>

map_to_memory_row(rows) == [ i \in 1..Len(rows) |-> to_memory_row(rows[i]) ]

list_memories(memories, limit) == map_to_memory_row(take(sort_desc(memories), limit))

\* str::contains with a string pattern
contains_str(s, p) ==
    \E i \in 0..(Len(s) - Len(p)) : SubSeq(s, i + 1, i + Len(p)) = p

\* str::to_lowercase, on texts of ASCII characters
to_lowercase(s) == to_ascii_lowercase(s)

find_memories(memories, query, limit) ==
    LET needle == to_lowercase(query)
        Hit(m) == contains_str(to_lowercase(m.text), needle)
    IN  map_to_memory_row(take(sort_desc(SelectSeq(memories, Hit)), limit))

(***************************************************************************)
(* Text input (main.rs).                                                   *)
(***************************************************************************)
RECURSIVE trim_end_newlines(_)
trim_end_newlines(buf) ==
    IF buf # << >> /\ buf[Len(buf)] \in { "\n", "\r" }
    THEN trim_end_newlines(SubSeq(buf, 1, Len(buf) - 1))
    ELSE buf

\* read_text: the argument if given, else standard input without trailing newlines
read_text(text, stdin) ==
    IF IsSome(text) THEN Unwrap(text) ELSE trim_end_newlines(stdin)

\* validate_text refusing a text of MAX_TEXT_CHARS characters
validate_text_one_short(text) ==
    IF text = << >> THEN "text is empty"
    ELSE IF Len(text) >= MAX_TEXT_CHARS THEN "too long"
    ELSE IF contains(text, "\n") \/ contains(text, "\r") THEN "newlines are not allowed"
    ELSE ""

\* validate_text: "" when the text is accepted, else the error
validate_text(text) ==
    IF text = << >> THEN "text is empty"
    ELSE IF Len(text) > MAX_TEXT_CHARS THEN "too long"
    ELSE IF contains(text, "\n") \/ contains(text, "\r") THEN "newlines are not allowed"
    ELSE ""

(***************************************************************************)
(* Handoff engine (main.rs).                                               *)
(***************************************************************************)
\* first_from taking the entry one place too new
first_from_off_by_one(memories, window) ==
    LET sorted == sort_desc(memories)
    IN  IF Len(sorted) > window THEN Some(sorted[window].id) ELSE None

\* handoff_mark, first checkpoint: the id at index `window` of the newest-first
\* order when there are more than `window` entries
first_from(memories, window) ==
    LET sorted == sort_desc(memories)
    IN  IF Len(sorted) > window THEN Some(sorted[window + 1].id) ELSE None

\* handoff_mark: from_memory_id of the new checkpoint
mark_from(prev, memories, window) ==
    IF IsSome(prev) THEN Some(Unwrap(prev).to_memory_id)
    ELSE first_from(memories, window)

\* handoff_open: timestamp of the `from` entry, if the checkpoint names one
\* and it is found
\* open_from_ts falling back on the checkpoint's own timestamp when the
\* `from` entry is not in the log
open_from_ts_fallback(memories, handoff) ==
    IF ~IsSome(handoff.from_memory_id) THEN None
    ELSE LET m == find_by_id(memories, Unwrap(handoff.from_memory_id))
         IN  IF IsSome(m) THEN Some(Unwrap(m).ts_utc) ELSE Some(handoff.ts_utc)

open_from_ts(memories, handoff) ==
    IF ~IsSome(handoff.from_memory_id) THEN None
    ELSE LET m == find_by_id(memories, Unwrap(handoff.from_memory_id))
         IN  IF IsSome(m) THEN Some(Unwrap(m).ts_utc) ELSE None

\* open_slice leaving out the entries of the `to` entry's own timestamp
open_slice_strict(memories, handoff, to) ==
    LET from_ts == open_from_ts(memories, handoff)
        InRange(m) ==
            /\ str_lt(m.ts_utc, to.ts_utc)
            /\ (IsSome(from_ts) => str_lt(Unwrap(from_ts), m.ts_utc))
    IN  sort_desc(SelectSeq(memories, InRange))

\* handoff_open: the slice of a checkpoint whose `to` entry is `to`, newest first
open_slice(memories, handoff, to) ==
    LET from_ts == open_from_ts(memories, handoff)
        InRange(m) ==
            /\ str_le(m.ts_utc, to.ts_utc)
            /\ (IsSome(from_ts) => str_lt(Unwrap(from_ts), m.ts_utc))
    IN  sort_desc(SelectSeq(memories, InRange))

\* open_result in which the checkpoint's window caps the caller's limit
open_result_window_caps(memories, handoff, limit) ==
    LET to == find_by_id(memories, handoff.to_memory_id)
    IN  IF ~IsSome(to) THEN Err("handoff target memory not found")
        ELSE LET slice == open_slice(memories, handoff, Unwrap(to))
                 total == Len(slice)
                 show_limit == IF IsSome(limit)
                               THEN MinNat(Unwrap(limit), handoff.suggested_window)
                               ELSE handoff.suggested_window
                 shown == MinNat(total, show_limit)
             IN  Ok([ handoff |-> handoff, slice |-> slice, total |-> total,
                      shown |-> shown, rows |-> take(slice, show_limit) ])

\* handoff_open from the point where the checkpoint is chosen
open_result(memories, handoff, limit) ==
    LET to == find_by_id(memories, handoff.to_memory_id)
    IN  IF ~IsSome(to) THEN Err("handoff target memory not found")
        ELSE LET slice == open_slice(memories, handoff, Unwrap(to))
                 total == Len(slice)
                 show_limit == IF IsSome(limit) THEN Unwrap(limit)
                               ELSE handoff.suggested_window
                 shown == MinNat(total, show_limit)
             IN  Ok([ handoff |-> handoff, slice |-> slice, total |-> total,
                      shown |-> shown, rows |-> take(slice, show_limit) ])

(***************************************************************************)
(* State.  memories_csv and handoffs_csv are the two files of the store,   *)
(* clock the last instant the wall clock showed, out the last command: its *)
(* name, its arguments, its error ("" on success) and what it printed.     *)
(***************************************************************************)
Outcome(op, arg, err, val) == [ op |-> op, arg |-> arg, err |-> err, val |-> val ]

Init ==
    /\ memories_csv = AbsentFile
    /\ handoffs_csv = AbsentFile
    /\ clock = ClockStart
    /\ out = Outcome("none", << >>, "", << >>)

\* ensure_store_scaffold
ensured_memories == ensure_csv_file(memories_csv, MEMORIES_HEADER)
ensured_handoffs == ensure_csv_file(handoffs_csv, HANDOFFS_HEADER)

\* cr what / cr why
add_memory(kind, text, stdin, now, rng, env) ==
    LET t == read_text(text, stdin)
        verr == validate_text(t)
        memories == read_memories(ensured_memories)
        id == next_memory_id(memories, rng)
        rec == [ id |-> id, kind |-> kind, text |-> t, ts_utc |-> to_rfc3339(now),
                 cwd |-> env.cwd, git_branch |-> env.git_branch,
                 git_head |-> env.git_head ]
    IN  IF verr # ""
        THEN /\ memories_csv' = ensured_memories
             /\ handoffs_csv' = ensured_handoffs
             /\ out' = Outcome("add", << kind, text, stdin >>, verr, << >>)
             /\ UNCHANGED clock
        ELSE /\ id # NoId
             /\ clock' = now
             /\ memories_csv' = append_memory(ensured_memories, rec)
             /\ handoffs_csv' = ensured_handoffs
             /\ out' = Outcome("add", << kind, text, stdin >>, "", id)

\* mark_error without the check of the window
mark_error_any_window(window) ==
    LET latest == latest_memory(read_memories(ensured_memories))
        prev == latest_handoff(read_handoffs(ensured_handoffs))
    IN  IF ~IsSome(latest) THEN "no memories found"
        ELSE IF IsSome(prev) /\ Unwrap(prev).to_memory_id = Unwrap(latest).id
        THEN "no new memories since last handoff"
        ELSE ""

\* handoff_mark: the error it stops with before it reads the clock, "" if none
mark_error(window) ==
    LET latest == latest_memory(read_memories(ensured_memories))
        prev == latest_handoff(read_handoffs(ensured_handoffs))
    IN  IF window = 0 THEN "window must be >= 1"
        ELSE IF ~IsSome(latest) THEN "no memories found"
        ELSE IF IsSome(prev) /\ Unwrap(prev).to_memory_id = Unwrap(latest).id
        THEN "no new memories since last handoff"
        ELSE ""

\* mark_record writing the checkpoint's own id as its target
mark_record_to_self(handoff_id, ts_utc, prev, memories, latest, window, env) ==
    [ id |-> handoff_id, ts_utc |-> ts_utc,
      from_memory_id |-> mark_from(prev, memories, window),
      to_memory_id |-> handoff_id,
      suggested_window |-> window,
      cwd |-> env.cwd, git_branch |-> env.git_branch, git_head |-> env.git_head ]

\* handoff_mark: the checkpoint that is appended
mark_record(handoff_id, ts_utc, prev, memories, latest, window, env) ==
    [ id |-> handoff_id, ts_utc |-> ts_utc,
      from_memory_id |-> mark_from(prev, memories, window),
      to_memory_id |-> latest.id,
      suggested_window |-> window,
      cwd |-> env.cwd, git_branch |-> env.git_branch, git_head |-> env.git_head ]

\* cr handoff mark --window <window>
handoff_mark(window, now, rng, env) ==
    LET memories == read_memories(ensured_memories)
        latest == latest_memory(memories)
        handoffs == read_handoffs(ensured_handoffs)
        prev == latest_handoff(handoffs)
        handoff_id == next_handoff_id(handoffs, rng)
        rec == mark_record(handoff_id, to_rfc3339(now), prev, memories,
                           Unwrap(latest), window, env)
        err == mark_error(window)
    IN  IF window = 0
        THEN /\ out' = Outcome("mark", << window >>, err, << >>)
             /\ UNCHANGED << memories_csv, handoffs_csv, clock >>
        ELSE IF err # ""
        THEN /\ memories_csv' = ensured_memories
             /\ handoffs_csv' = ensured_handoffs
             /\ out' = Outcome("mark", << window >>, err, << >>)
             /\ UNCHANGED clock
        ELSE /\ handoff_id # NoId
             /\ clock' = now
             /\ memories_csv' = ensured_memories
             /\ handoffs_csv' = append_handoff(ensured_handoffs, rec)
             /\ out' = Outcome("mark", << window >>, "", rec)

\* cr handoff open [id] [--limit <limit>]
handoff_open(id_prefix, limit) ==
    LET handoffs == read_handoffs(ensured_handoffs)
        handoff == IF IsSome(id_prefix)
                   THEN resolve_handoff(handoffs, Unwrap(id_prefix))
                   ELSE Ok(Unwrap(latest_handoff(handoffs)))
        memories == read_memories(ensured_memories)
        res == IF handoffs = << >> THEN Err("no handoffs found")
               ELSE IF ~handoff.ok THEN handoff
               ELSE open_result(memories, handoff.val, limit)
    IN  /\ memories_csv' = ensured_memories
        /\ handoffs_csv' = ensured_handoffs
        /\ out' = Outcome("open", << id_prefix, limit >>, res.err, res.val)
        /\ UNCHANGED clock

\* cr ls <n>
list(n) ==
    LET memories == read_memories(ensured_memories)
        rows == list_memories(memories, n)
    IN  /\ memories_csv' = ensured_memories
        /\ handoffs_csv' = ensured_handoffs
        /\ out' = Outcome("list", << n >>, "", rows)
        /\ UNCHANGED clock

\* cr find <query> --limit <limit>
find(query, limit) ==
    LET memories == read_memories(ensured_memories)
        rows == find_memories(memories, query, limit)
    IN  /\ memories_csv' = ensured_memories
        /\ handoffs_csv' = ensured_handoffs
        /\ out' = Outcome("find", << query, limit >>, "", rows)
        /\ UNCHANGED clock

\* cr show
show(id_prefix) ==
    LET memories == read_memories(ensured_memories)
        res == show_memory(memories, id_prefix)
    IN  /\ memories_csv' = ensured_memories
        /\ handoffs_csv' = ensured_handoffs
        /\ out' = Outcome("show", << id_prefix >>, res.err, res.val)
        /\ UNCHANGED clock

(***************************************************************************)
(* Inputs of the commands.                                                 *)
(***************************************************************************)
\* working directory and git state the commands run in
Env0 == [ cwd |-> << "." >>, git_branch |-> None, git_head |-> None ]

\* texts given to `cr what` / `cr why`: one that is accepted, one that is not
Texts == { Some(<< "a" >>), Some(<< >>) }

Windows == 0..MaxWindow

\* instants the wall clock can show when it is read next: it does not run
\* backwards, and two readings can fall in the same millisecond
Nows == { now \in Instants : now >= clock }

\* what `cr handoff open` is given: nothing, the id of a checkpoint, or an
\* id no checkpoint has
OpenArgs ==
    { None, Some(<< "z", "z" >>) }
        \cup { Some(handoffs_csv.rows[i].id) : i \in 1..Len(handoffs_csv.rows) }

(***************************************************************************)
(* The journal: add-memory and Mark in any order.  A command that stops    *)
(* with an error before it reads the clock or draws an id takes no instant *)
(* and no stream.                                                          *)
(***************************************************************************)
AddMemory ==
    /\ Len(memories_csv.rows) < MaxMem
    /\ \E kind \in { "what" }, text \in Texts :
         IF validate_text(read_text(text, << >>)) # ""
         THEN add_memory(kind, text, << >>, clock, << >>, Env0)
         ELSE \E now \in Nows, rng \in SeqStreams(Len(memories_csv.rows)) :
                 add_memory(kind, text, << >>, now, rng, Env0)

HandoffMark ==
    /\ Len(handoffs_csv.rows) < MaxHand
    /\ \E window \in Windows :
         IF mark_error(window) # ""
         THEN handoff_mark(window, clock, << >>, Env0)
         ELSE \E now \in Nows, rng \in SeqStreams(Len(handoffs_csv.rows)) :
                 handoff_mark(window, now, rng, Env0)

Next == AddMemory \/ HandoffMark

Spec == Init /\ [][Next]_vars

(***************************************************************************)
(* Views of the state used by the properties.                              *)
(***************************************************************************)
Mems == read_memories(memories_csv)
Hands == read_handoffs(handoffs_csv)

Last(rows) == rows[Len(rows)]

MarkedNow == out.op = "mark" /\ out.err = ""

\* the Open slice of checkpoint h in the current state, as a set of entries
SliceSet(h) ==
    LET res == open_result(Mems, h, None)
    IN  IF res.ok THEN { res.val.slice[i] : i \in 1..Len(res.val.slice) } ELSE {}

(***************************************************************************)
(* C1.  Whenever Mark succeeds while a checkpoint already exists, the new  *)
(* checkpoint's from_memory_id is the to_memory_id of the checkpoint       *)
(* appended before it, and its to_memory_id is the id of the memory entry  *)
(* appended last.                                                          *)
(***************************************************************************)
C1_MarkChains ==
    (MarkedNow /\ Len(Hands) >= 2) =>
        /\ Last(Hands).from_memory_id = Some(Hands[Len(Hands) - 1].to_memory_id)
        /\ Last(Hands).to_memory_id = Last(Mems).id

(***************************************************************************)
(* C2.  Chained checkpoints neither overlap nor gap: every memory entry    *)
(* whose timestamp is above the first checkpoint's lower bound and at or   *)
(* below the timestamp of the last checkpoint's `to` entry is in the Open  *)
(* slice of exactly one checkpoint.                                        *)
(***************************************************************************)
\* a timestamp as a number
TsNum(ts) == de_usize(ts)

\* the entries the id names (one, in a store this program wrote)
EntriesOf(id) == { Mems[j] : j \in { k \in 1..Len(Mems) : Mems[k].id = id } }

AboveLowerBound(m, h) ==
    \/ h.from_memory_id = None
    \/ \A f \in EntriesOf(Unwrap(h.from_memory_id)) : TsNum(m.ts_utc) > TsNum(f.ts_utc)

AtOrBelowTo(m, h) ==
    \E t \in EntriesOf(h.to_memory_id) : TsNum(m.ts_utc) <= TsNum(t.ts_utc)

C2_NoOverlapNoGap ==
    Hands # << >> =>
        \A j \in 1..Len(Mems) :
            (AboveLowerBound(Mems[j], Hands[1]) /\ AtOrBelowTo(Mems[j], Last(Hands))) =>
                Cardinality({ i \in 1..Len(Hands) : Mems[j] \in SliceSet(Hands[i]) }) = 1

(***************************************************************************)
(* C3.  A Mark (window >= 1) taken when the last checkpoint's to_memory_id *)
(* is the id of the memory entry appended last, and so every Mark that     *)
(* directly follows a successful Mark, fails with "no new memories since   *)
(* last handoff" and leaves the checkpoint log as it was.                  *)
(***************************************************************************)
NothingNew ==
    /\ Hands # << >>
    /\ Mems # << >>
    /\ Last(Hands).to_memory_id = Last(Mems).id

MarkStep == HandoffMark /\ out'.op = "mark" /\ out'.arg[1] >= 1

C3_NoNewMemoriesFails ==
    [][ (MarkStep /\ (NothingNew \/ MarkedNow)) =>
            /\ out'.err = "no new memories since last handoff"
            /\ handoffs_csv'.rows = handoffs_csv.rows ]_vars

(***************************************************************************)
(* C4.  First-checkpoint windowing.  When Mark succeeds with no earlier    *)
(* checkpoint, N entries and window w: from_memory_id is absent if N <= w  *)
(* and else names the entry at index w (from 0) of the newest-first order; *)
(* Open without a limit then has a slice of exactly min(N, w) entries.     *)
(***************************************************************************)
\* index (from 0) of Mems[j] in the newest-first order that keeps entries of
\* one timestamp in append order
NewestFirstIndex(j) ==
    Cardinality({ k \in 1..Len(Mems) : TsNum(Mems[k].ts_utc) > TsNum(Mems[j].ts_utc) })
        + Cardinality({ k \in 1..(j - 1) : Mems[k].ts_utc = Mems[j].ts_utc })

FirstMarkedNow == MarkedNow /\ Len(Hands) = 1

FirstFromAtWindow ==
    LET h == Hands[1]
        w == h.suggested_window
    IN  /\ Len(Mems) <= w => h.from_memory_id = None
        /\ Len(Mems) > w =>
              \E j \in 1..Len(Mems) :
                  /\ h.from_memory_id = Some(Mems[j].id)
                  /\ NewestFirstIndex(j) = w

FirstSliceSize == open_result(Mems, Hands[1], None).val.total

\* the claim as it was made
C4_FirstWindowExact ==
    FirstMarkedNow =>
        /\ FirstFromAtWindow
        /\ FirstSliceSize = MinNat(Len(Mems), Hands[1].suggested_window)

DistinctTimestamps ==
    \A j, k \in 1..Len(Mems) : j # k => Mems[j].ts_utc # Mems[k].ts_utc

\* C4 as amended: the slice holds the entries strictly newer than the `from`
\* entry, which are at most min(N, w), and exactly min(N, w) when no two
\* entries carry the same timestamp (and whenever N <= w)
C4_FirstWindowAtMost ==
    FirstMarkedNow =>
        LET w == Hands[1].suggested_window
        IN  /\ FirstFromAtWindow
            /\ FirstSliceSize <= MinNat(Len(Mems), w)
            /\ (DistinctTimestamps \/ Len(Mems) <= w) =>
                   FirstSliceSize = MinNat(Len(Mems), w)
            /\ FirstSliceSize =
                   Cardinality({ j \in 1..Len(Mems) : AboveLowerBound(Mems[j], Hands[1]) })

\* a first Mark over more entries than the window, no two of one instant
C4_Witness ==
    /\ FirstMarkedNow
    /\ DistinctTimestamps
    /\ Len(Mems) > Hands[1].suggested_window
    /\ Hands[1].suggested_window = MaxWindow
    /\ FirstSliceSize = MaxWindow

(***************************************************************************)
(* C9.  Every checkpoint's to_memory_id is the id of an entry of the       *)
(* memory log, so Open of any checkpoint finds its target.                 *)
(***************************************************************************)
C9_ToExists ==
    \A i \in 1..Len(Hands) :
        /\ \E j \in 1..Len(Mems) : Mems[j].id = Hands[i].to_memory_id
        /\ open_result(Mems, Hands[i], None).err # "handoff target memory not found"

\* two checkpoints, and an entry added after the last one
C9_Witness ==
    /\ Len(Hands) >= 2
    /\ out.op = "add" /\ out.err = ""
    /\ \A i \in 1..Len(Hands) : Hands[i].to_memory_id # Last(Mems).id

(***************************************************************************)
(* Open as a function of the store.  The store is one an earlier run left: *)
(* up to MaxMem entries whose timestamps are in any order (the wall clock  *)
(* can be set back between two runs) and one checkpoint over them; Open is *)
(* applied to it once.                                                     *)
(***************************************************************************)
\* the id the generator gives the row after n others (see SeqStreams)
RowId(prefix, n) ==
    prefix \o << "-" >> \o random_base36(Block(n, INITIAL_LEN), 1, INITIAL_LEN)

MemoryAt(i, now) ==
    [ id |-> RowId(<< "c", "r" >>, i - 1), kind |-> "what", text |-> << "a" >>,
      ts_utc |-> to_rfc3339(now), cwd |-> Env0.cwd,
      git_branch |-> Env0.git_branch, git_head |-> Env0.git_head ]

FileOf(header, rows) == [ exists |-> TRUE, header |-> header, rows |-> rows ]

AnyOrderMemories ==
    UNION { { [ i \in 1..n |-> ser_memory(MemoryAt(i, tss[i])) ] :
                tss \in [ 1..n -> Instants ] } : n \in 1..MaxMem }

CheckpointsOver(n) ==
    { [ id |-> RowId(<< "h", "f" >>, 0), ts_utc |-> to_rfc3339(ClockStart),
        from_memory_id |-> from, to_memory_id |-> RowId(<< "c", "r" >>, t - 1),
        suggested_window |-> w, cwd |-> Env0.cwd,
        git_branch |-> Env0.git_branch, git_head |-> Env0.git_head ] :
          from \in { None } \cup { Some(RowId(<< "c", "r" >>, f - 1)) : f \in 1..n },
          t \in 1..n, w \in 1..MaxWindow }

InitOpen ==
    /\ memories_csv \in { FileOf(MEMORIES_HEADER, rows) : rows \in AnyOrderMemories }
    /\ handoffs_csv \in { FileOf(HANDOFFS_HEADER, << ser_handoff(h) >>) :
                            h \in CheckpointsOver(Len(memories_csv.rows)) }
    /\ clock = ClockStart + MaxTicks
    /\ out = Outcome("none", << >>, "", << >>)

OpenLimits == { None } \cup { Some(n) : n \in 0..(MaxWindow + 1) }

HandoffOpen ==
    /\ out.op = "none"
    /\ \E id_prefix \in OpenArgs, limit \in OpenLimits :
         handoff_open(id_prefix, limit)

NextOpen == HandoffOpen

SpecOpen == InitOpen /\ [][NextOpen]_vars

Opened == out.op = "open" /\ out.err = ""

(***************************************************************************)
(* C5.  Open returns exactly the entries m with m.timestamp <= the `to`    *)
(* entry's timestamp and (no `from`, or m.timestamp > the `from` entry's   *)
(* timestamp), newest first, whatever the append order of the log.         *)
(***************************************************************************)
C5_OpenSlice ==
    Opened =>
        LET slice == out.val.slice
            h == out.val.handoff
            expected == { j \in 1..Len(Mems) :
                            AtOrBelowTo(Mems[j], h) /\ AboveLowerBound(Mems[j], h) }
        IN  /\ { slice[i] : i \in 1..Len(slice) } = { Mems[j] : j \in expected }
            /\ Len(slice) = Cardinality(expected)
            /\ \A i \in 1..(Len(slice) - 1) :
                   TsNum(slice[i].ts_utc) >= TsNum(slice[i + 1].ts_utc)

\* a log that is not in timestamp order, with an entry left out at `from` and
\* an entry left out above `to`
C5_Witness ==
    /\ Opened
    /\ out.val.total >= 1
    /\ out.val.handoff.from_memory_id # None
    /\ \E f \in 1..Len(Mems) :
          /\ Mems[f].id = Unwrap(out.val.handoff.from_memory_id)
          /\ TsNum(Mems[f].ts_utc) < TsNum(out.val.slice[1].ts_utc)
    /\ \E j, k \in 1..Len(Mems) :
          /\ j < k
          /\ TsNum(Mems[j].ts_utc) > TsNum(Mems[k].ts_utc)
          /\ ~AtOrBelowTo(Mems[j], out.val.handoff)
          /\ Mems[k].id = out.val.handoff.to_memory_id

(***************************************************************************)
(* C6.  Open reports shown = min(display count, slice size), the display   *)
(* count being the caller's limit if given and suggested_window otherwise, *)
(* and lists exactly the `shown` newest entries of the slice; a limit      *)
(* above the slice size shows the whole slice.                             *)
(***************************************************************************)
C6_ShownCount ==
    Opened =>
        LET v == out.val
            limit == out.arg[2]
            display == IF limit = None THEN v.handoff.suggested_window ELSE Unwrap(limit)
            listed == { v.rows[i] : i \in 1..Len(v.rows) }
            whole == { v.slice[i] : i \in 1..Len(v.slice) }
        IN  /\ v.total = Len(v.slice)
            /\ v.shown = (IF display <= v.total THEN display ELSE v.total)
            /\ Len(v.rows) = v.shown
            /\ Cardinality(listed) = v.shown
            /\ listed \subseteq whole
            /\ \A r \in listed : \A m \in whole \ listed :
                   TsNum(r.ts_utc) >= TsNum(m.ts_utc)
            /\ (limit # None /\ Unwrap(limit) > v.total) =>
                   v.shown = v.total /\ v.rows = v.slice

\* a limit above the checkpoint's window that shows more than the window
C6_Witness ==
    /\ Opened
    /\ out.arg[2] # None
    /\ Unwrap(out.arg[2]) > out.val.handoff.suggested_window
    /\ out.val.shown > out.val.handoff.suggested_window
    /\ out.val.shown = Unwrap(out.arg[2])

(***************************************************************************)
(* The resolver as a function of the store and the input.  The store holds *)
(* up to MaxMem records of each kind, their ids drawn from a pool with     *)
(* sibling ids, an id that extends another, an id in the legacy form and   *)
(* an id in upper case (csv_store.rs lower-cases the stored id before it   *)
(* compares); Show and Open are applied to it once.                        *)
(***************************************************************************)
\* cr-ab12, cr-ab13, cr-ab123, c_ab12, CR-AB14
MemPool ==
    << << "c", "r", "-", "a", "b", "1", "2" >>,
       << "c", "r", "-", "a", "b", "1", "3" >>,
       << "c", "r", "-", "a", "b", "1", "2", "3" >>,
       << "c", "_", "a", "b", "1", "2" >>,
       << "C", "R", "-", "A", "B", "1", "4" >> >>

\* hf-ab12, hf-ab13, hf-ab123, h_ab12, HF-AB14
HandPool ==
    << << "h", "f", "-", "a", "b", "1", "2" >>,
       << "h", "f", "-", "a", "b", "1", "3" >>,
       << "h", "f", "-", "a", "b", "1", "2", "3" >>,
       << "h", "_", "a", "b", "1", "2" >>,
       << "H", "F", "-", "A", "B", "1", "4" >> >>

\* sequences of n distinct pool positions
Picks(n) ==
    { p \in [ 1..n -> 1..Len(MemPool) ] : \A i, j \in 1..n : i # j => p[i] # p[j] }

InitResolve ==
    /\ \E n \in 0..MaxMem : \E p \in Picks(n) :
         /\ memories_csv = FileOf(MEMORIES_HEADER,
              [ i \in 1..n |->
                  ser_memory([ MemoryAt(i, ClockStart) EXCEPT !.id = MemPool[p[i]] ]) ])
         /\ handoffs_csv = FileOf(HANDOFFS_HEADER,
              [ i \in 1..n |->
                  ser_handoff([ id |-> HandPool[p[i]], ts_utc |-> to_rfc3339(ClockStart),
                                from_memory_id |-> None,
                                to_memory_id |-> MemPool[p[1]],
                                suggested_window |-> 1, cwd |-> Env0.cwd,
                                git_branch |-> Env0.git_branch,
                                git_head |-> Env0.git_head ]) ])
    /\ clock = ClockStart
    /\ out = Outcome("none", << >>, "", << >>)

\* "", "ab1", "ab12", "AB12", "ab14", "zz", "c", "h", "b12", "cr-", "cr-ab1", "cr-ab12", "CR-AB12", "c_ab12", "c_z", "r-ab12", "ab-1", "_ab", "hf-ab12"
ShowInputs ==
    { << >>,
      << "a", "b", "1" >>,
      << "a", "b", "1", "2" >>,
      << "A", "B", "1", "2" >>,
      << "a", "b", "1", "4" >>,
      << "z", "z" >>,
      << "c" >>,
      << "h" >>,
      << "b", "1", "2" >>,
      << "c", "r", "-" >>,
      << "c", "r", "-", "a", "b", "1" >>,
      << "c", "r", "-", "a", "b", "1", "2" >>,
      << "C", "R", "-", "A", "B", "1", "2" >>,
      << "c", "_", "a", "b", "1", "2" >>,
      << "c", "_", "z" >>,
      << "r", "-", "a", "b", "1", "2" >>,
      << "a", "b", "-", "1" >>,
      << "_", "a", "b" >>,
      << "h", "f", "-", "a", "b", "1", "2" >> }

\* "", "ab1", "ab12", "AB12", "ab14", "zz", "c", "h", "b12", "hf-", "hf-ab1", "hf-ab12", "HF-AB12", "h_ab12", "h_z", "f-ab12", "ab-1", "_ab", "cr-ab12"
OpenInputs ==
    { << >>,
      << "a", "b", "1" >>,
      << "a", "b", "1", "2" >>,
      << "A", "B", "1", "2" >>,
      << "a", "b", "1", "4" >>,
      << "z", "z" >>,
      << "c" >>,
      << "h" >>,
      << "b", "1", "2" >>,
      << "h", "f", "-" >>,
      << "h", "f", "-", "a", "b", "1" >>,
      << "h", "f", "-", "a", "b", "1", "2" >>,
      << "H", "F", "-", "A", "B", "1", "2" >>,
      << "h", "_", "a", "b", "1", "2" >>,
      << "h", "_", "z" >>,
      << "f", "-", "a", "b", "1", "2" >>,
      << "a", "b", "-", "1" >>,
      << "_", "a", "b" >>,
      << "c", "r", "-", "a", "b", "1", "2" >> }

Show ==
    /\ out.op = "none"
    /\ \E id_prefix \in ShowInputs : show(id_prefix)

OpenById ==
    /\ out.op = "none"
    /\ \E id_prefix \in OpenInputs : handoff_open(Some(id_prefix), None)

NextResolve == Show \/ OpenById

SpecResolve == InitResolve /\ [][NextResolve]_vars

Shown == out.op = "show"
OpenedById == out.op = "open" /\ out.arg[1] # None

\* the distinct ids of the records of a file that the code's matcher accepts
MatchingIds(records, id_prefix, canonical, legacy) ==
    { records[i].id : i \in
        { j \in 1..Len(records) :
            matches_any_prefix(records[j].id,
                               build_prefix_candidates(id_prefix, canonical, legacy)) } }

ShowMatching == MatchingIds(Mems, out.arg[1], << "c", "r", "-" >>, << "c", "_" >>)
OpenMatching == MatchingIds(Hands, Unwrap(out.arg[1]), << "h", "f", "-" >>, << "h", "_" >>)

IdsOf(records) == { records[i].id : i \in 1..Len(records) }

(***************************************************************************)
(* C7.  For both record kinds and every input the resolver fails with a    *)
(* not-found error when no record matches, fails with an ambiguous error   *)
(* when more than one distinct id matches (no tie-break), and returns the  *)
(* record of the one matching id otherwise.  With exactly cr-ab12 and      *)
(* cr-ab13 stored: ab1 is ambiguous, ab12 and cr-ab12 give cr-ab12, zz is  *)
(* not found.                                                              *)
(***************************************************************************)
C7_ResolverOutcome ==
    /\ Shown =>
        /\ ShowMatching = {} => out.err = "no memory matching id prefix"
        /\ Cardinality(ShowMatching) > 1 => out.err = "id prefix is ambiguous"
        /\ Cardinality(ShowMatching) = 1 =>
               out.err = "" /\ out.val.id \in ShowMatching
                            /\ \E i \in 1..Len(Mems) : Mems[i] = out.val
        /\ IdsOf(Mems) = { MemPool[1], MemPool[2] } =>
            /\ out.arg[1] = << "a", "b", "1" >> => out.err = "id prefix is ambiguous"
            /\ out.arg[1] \in { << "a", "b", "1", "2" >>, MemPool[1] } =>
                   out.err = "" /\ out.val.id = MemPool[1]
            /\ out.arg[1] = << "z", "z" >> => out.err = "no memory matching id prefix"
    /\ OpenedById =>
        /\ OpenMatching = {} =>
               out.err \in { "no handoff matching id prefix", "no handoffs found" }
        /\ Cardinality(OpenMatching) > 1 => out.err = "handoff id prefix is ambiguous"
        /\ Cardinality(OpenMatching) = 1 =>
               out.err = "" /\ out.val.handoff.id \in OpenMatching
                            /\ \E i \in 1..Len(Hands) : Hands[i] = out.val.handoff
        /\ IdsOf(Hands) = { HandPool[1], HandPool[2] } =>
            /\ Unwrap(out.arg[1]) = << "a", "b", "1" >> =>
                   out.err = "handoff id prefix is ambiguous"
            /\ Unwrap(out.arg[1]) \in { << "a", "b", "1", "2" >>, HandPool[1] } =>
                   out.err = "" /\ out.val.handoff.id = HandPool[1]
            /\ Unwrap(out.arg[1]) = << "z", "z" >> =>
                   out.err = "no handoff matching id prefix"

\* a full id that a longer stored id extends: two ids match, the exact one
\* does not win
C7_Witness ==
    /\ Shown
    /\ out.arg[1] = MemPool[1]
    /\ MemPool[3] \in IdsOf(Mems)
    /\ MemPool[1] \in IdsOf(Mems)
    /\ out.err = "id prefix is ambiguous"

\* the relation of the resolver, written out: x against an id of a kind whose
\* prefixes are canonical and legacy
Bare(x) == \A i \in 1..Len(x) : x[i] \notin { "-", "_" }

MatchRelation(id, x, canonical, legacy) ==
    LET low(str) == [ i \in 1..Len(str) |-> IF str[i] \in UpperSet THEN LowerOf[str[i]] ELSE str[i] ]
        pre(a, b) == Len(a) <= Len(b) /\ \A i \in 1..Len(a) : a[i] = b[i]
    IN  \/ pre(low(x), low(id))
        \/ /\ Bare(x)
           /\ \/ pre(low(canonical \o x), low(id))
              \/ pre(low(legacy \o x), low(id))

ShowRelated == { id \in IdsOf(Mems) : MatchRelation(id, out.arg[1], << "c", "r", "-" >>, << "c", "_" >>) }
OpenRelated == { id \in IdsOf(Hands) :
                   MatchRelation(id, Unwrap(out.arg[1]), << "h", "f", "-" >>, << "h", "_" >>) }

(***************************************************************************)
(* C8.  A record matches input x exactly when its lower-cased id starts    *)
(* with lowercase(x) or, only when x has neither '-' nor '_', with         *)
(* lowercase(canonical prefix + x) or lowercase(legacy prefix + x): the    *)
(* resolver finds nothing exactly when no stored id is related to x, and   *)
(* what it returns is related to x.  Case is ignored on both sides.        *)
(***************************************************************************)
C8_MatchingRelation ==
    /\ Shown =>
        /\ ShowMatching = ShowRelated
        /\ out.err = "no memory matching id prefix" <=> ShowRelated = {}
        /\ out.err = "" => ShowRelated = { out.val.id }
    /\ OpenedById =>
        /\ OpenMatching = OpenRelated
        /\ Len(Hands) > 0 =>
               (out.err = "no handoff matching id prefix" <=> OpenRelated = {})
        /\ out.err = "" => OpenRelated = { out.val.handoff.id }

\* an upper-case bare input resolves to a lower-case id through the canonical
\* prefix, in a store that also holds an upper-case id
C8_Witness ==
    /\ Shown
    /\ out.arg[1] = << "A", "B", "1", "2" >>
    /\ out.err = ""
    /\ out.val.id = MemPool[1]
    /\ MemPool[5] \in IdsOf(Mems)

(***************************************************************************)
(* The journal with the generator free to draw: every add-memory and Mark  *)
(* draws any stream of RngStreams, so a candidate can be one the store     *)
(* holds, once or MAX_RETRIES_PER_LEN times in a row.                      *)
(***************************************************************************)
\* here every command runs in the millisecond after the one before it, until
\* the last instant is reached
NextNow == { IF clock < ClockStart + MaxTicks THEN clock + 1 ELSE clock }

AddMemoryAnyId ==
    /\ Len(memories_csv.rows) < MaxMem
    /\ \E now \in NextNow, rng \in RngStreams :
         add_memory("what", Some(<< "a" >>), << >>, now, rng, Env0)

HandoffMarkAnyId ==
    /\ Len(handoffs_csv.rows) < MaxHand
    /\ IF mark_error(1) # ""
       THEN handoff_mark(1, clock, << >>, Env0)
       ELSE \E now \in NextNow, rng \in RngStreams : handoff_mark(1, now, rng, Env0)

NextIds == AddMemoryAnyId \/ HandoffMarkAnyId

SpecIds == Init /\ [][NextIds]_vars

NoTwoAlike(records) ==
    \A i, j \in 1..Len(records) :
        i # j => to_ascii_lowercase(records[i].id) # to_ascii_lowercase(records[j].id)

(***************************************************************************)
(* C10.  In every state reached by add-memory and Mark operations no two   *)
(* memory entries have ids that are equal ignoring case, and no two        *)
(* checkpoints have ids that are equal ignoring case.                      *)
(***************************************************************************)
C10_IdsUnique == NoTwoAlike(Mems) /\ NoTwoAlike(Hands)

\* the generator drew a stored id MAX_RETRIES_PER_LEN times and went on to a
\* longer suffix, for an entry and for a checkpoint
C10_Witness ==
    /\ Len(Mems) >= 2
    /\ Len(Hands) >= 2
    /\ \E i \in 1..Len(Mems) : Len(Mems[i].id) = 3 + INITIAL_LEN + 1
    /\ \E i \in 1..Len(Hands) : Len(Hands[i].id) = 3 + INITIAL_LEN + 1

(***************************************************************************)
(* next_short_id as a function of the ids it is given and of the values    *)
(* the generator yields.  The ids are up to MaxMem of a pool that has      *)
(* lower-case and upper-case ids, an id with a longer suffix and an id of  *)
(* the other kind; the streams are up to three suffixes of INITIAL_LEN, or *)
(* MAX_RETRIES_PER_LEN draws of one suffix at a length, once or twice,     *)
(* followed by a longer suffix.  The call is applied once.                 *)
(***************************************************************************)
\* cr-0000, cr-0001, CR-000A, cr-00000, hf-0000
ExistingPool ==
    << << "c", "r", "-", "0", "0", "0", "0" >>,
       << "c", "r", "-", "0", "0", "0", "1" >>,
       << "C", "R", "-", "0", "0", "0", "A" >>,
       << "c", "r", "-", "0", "0", "0", "0", "0" >>,
       << "h", "f", "-", "0", "0", "0", "0" >> >>

\* the ids of the pool at the positions of a set, in the order of the pool
RECURSIVE PoolSeq(_, _)
PoolSeq(picked, k) ==
    IF k > Len(ExistingPool) THEN << >>
    ELSE (IF k \in picked THEN << ExistingPool[k] >> ELSE << >>) \o PoolSeq(picked, k + 1)

ExistingLists ==
    { PoolSeq(picked, 1) :
        picked \in { q \in SUBSET (1..Len(ExistingPool)) : Cardinality(q) <= MaxMem } }

\* last values of the suffixes that are drawn: the first MaxDraw digits and "a"
DrawDigits == (0..(MaxDraw - 1)) \cup { 10 }

DrawStreams ==
    { Block(d1, INITIAL_LEN) : d1 \in DrawDigits }
        \cup { Block(d1, INITIAL_LEN) \o Block(d2, INITIAL_LEN) :
                 d1 \in DrawDigits, d2 \in DrawDigits }
        \cup { Block(d1, INITIAL_LEN) \o Block(d2, INITIAL_LEN) \o Block(d3, INITIAL_LEN) :
                 d1 \in DrawDigits, d2 \in DrawDigits, d3 \in DrawDigits }
        \cup { Repeat(MAX_RETRIES_PER_LEN, Block(d1, INITIAL_LEN)) \o Block(d2, INITIAL_LEN + 1) :
                 d1 \in DrawDigits, d2 \in DrawDigits }
        \cup { Repeat(MAX_RETRIES_PER_LEN, Block(d1, INITIAL_LEN))
                 \o Repeat(MAX_RETRIES_PER_LEN, Block(d2, INITIAL_LEN + 1))
                 \o Block(d3, INITIAL_LEN + 2) :
                 d1 \in DrawDigits, d2 \in DrawDigits, d3 \in DrawDigits }

IdPrefixes == { << "c", "r" >>, << "h", "f" >> }

InitNextId ==
    /\ memories_csv = AbsentFile
    /\ handoffs_csv = AbsentFile
    /\ clock = ClockStart
    /\ \E existing_ids \in ExistingLists, prefix \in IdPrefixes, rng \in DrawStreams :
         out = Outcome("call", << existing_ids, prefix, rng >>, "", << >>)

\* the call returns when the stream holds the draws it takes
NextShortId ==
    /\ out.op = "call"
    /\ LET id == next_short_id(out.arg[1], out.arg[2], out.arg[3])
       IN  /\ id # NoId
           /\ out' = Outcome("next_short_id", out.arg, "", id)
    /\ UNCHANGED << memories_csv, handoffs_csv, clock >>

NextNextId == NextShortId

SpecNextId == InitNextId /\ [][NextNextId]_vars

Returned == out.op = "next_short_id"

Base36Lower == { DIGITS[i] : i \in 1..Len(DIGITS) }

(***************************************************************************)
(* C11.  next_short_id(existing_ids, prefix) never returns an id that is   *)
(* in existing_ids ignoring case, whatever the ids and the draws, and what *)
(* it returns is prefix, "-" and a suffix of at least INITIAL_LEN          *)
(* lower-case base-36 characters.                                          *)
(***************************************************************************)
C11_NextIdFresh ==
    Returned =>
        LET id == out.val
            existing_ids == out.arg[1]
            prefix == out.arg[2]
            n == Len(prefix)
        IN  /\ \A i \in 1..Len(existing_ids) :
                   to_ascii_lowercase(existing_ids[i]) # to_ascii_lowercase(id)
            /\ Len(id) >= n + 1 + INITIAL_LEN
            /\ SubSeq(id, 1, n) = prefix
            /\ id[n + 1] = "-"
            /\ \A i \in (n + 2)..Len(id) : id[i] \in Base36Lower

\* the first draw is the suffix of a stored upper-case id, and an id is returned
C11_Witness ==
    /\ Returned
    /\ out.arg[2] = << "c", "r" >>
    /\ \E i \in 1..Len(out.arg[1]) : out.arg[1][i] = ExistingPool[3]
    /\ SubSeq(out.arg[3], 1, INITIAL_LEN) = Block(10, INITIAL_LEN)
    /\ Len(out.arg[3]) > INITIAL_LEN

(***************************************************************************)
(* The loop of next_short_id, one draw at a time.  `out` holds the         *)
(* position of the loop: the suffix length and the draws made at it.  A    *)
(* draw is any suffix whose last character is of DrawDigits.  The loop is  *)
(* sequential code that goes on to its next draw, hence the fairness.      *)
(***************************************************************************)
\* one pass of the body of `for _ in 0..MAX_RETRIES_PER_LEN`, and `len += 1`
\* when the pass is the last of the run; the run never moves to a longer suffix
loop_iteration_same_len(used, prefix, suffix, len, tries) ==
    LET candidate == prefix \o << "-" >> \o suffix
    IN  IF candidate \notin used
        THEN [ done |-> TRUE, id |-> candidate, len |-> len, tries |-> tries ]
        ELSE IF tries + 1 = MAX_RETRIES_PER_LEN
             THEN [ done |-> FALSE, id |-> NoId, len |-> len, tries |-> 0 ]
             ELSE [ done |-> FALSE, id |-> NoId, len |-> len, tries |-> tries + 1 ]

loop_iteration(used, prefix, suffix, len, tries) ==
    LET candidate == prefix \o << "-" >> \o suffix
    IN  IF candidate \notin used
        THEN [ done |-> TRUE, id |-> candidate, len |-> len, tries |-> tries ]
        ELSE IF tries + 1 = MAX_RETRIES_PER_LEN
             THEN [ done |-> FALSE, id |-> NoId, len |-> len + 1, tries |-> 0 ]
             ELSE [ done |-> FALSE, id |-> NoId, len |-> len, tries |-> tries + 1 ]

InitLoop ==
    /\ memories_csv = AbsentFile
    /\ handoffs_csv = AbsentFile
    /\ clock = ClockStart
    /\ \E existing_ids \in ExistingLists, prefix \in IdPrefixes :
         out = Outcome("loop", << existing_ids, prefix >>, "",
                       [ done |-> FALSE, id |-> NoId, len |-> INITIAL_LEN, tries |-> 0 ])

LoopDraw ==
    /\ out.op = "loop"
    /\ \E d \in DrawDigits :
         LET existing_ids == out.arg[1]
             used == { to_ascii_lowercase(existing_ids[i]) : i \in 1..Len(existing_ids) }
             suffix == random_base36(Block(d, out.val.len), 1, out.val.len)
             after == loop_iteration(used, out.arg[2], suffix, out.val.len, out.val.tries)
         IN  out' = Outcome(IF after.done THEN "returned" ELSE "loop", out.arg, "", after)
    /\ UNCHANGED << memories_csv, handoffs_csv, clock >>

NextLoop == LoopDraw

SpecLoop == InitLoop /\ [][NextLoop]_vars /\ WF_vars(LoopDraw)

LoopReturned == out.op = "returned"

\* the longest suffix among the existing ids that begin with prefix and "-"
LongestSuffix(existing_ids, prefix) ==
    LET lens == { Len(existing_ids[i]) - Len(prefix) - 1 :
                    i \in { j \in 1..Len(existing_ids) :
                              starts_with(to_ascii_lowercase(existing_ids[j]),
                                          prefix \o << "-" >>) } }
    IN  IF lens = {} THEN 0 ELSE CHOOSE n \in lens : \A m \in lens : m <= n

(***************************************************************************)
(* C12.  next_short_id always returns a candidate, for every existing set: *)
(* the suffix length starts at INITIAL_LEN and grows by exactly one after  *)
(* each run of MAX_RETRIES_PER_LEN colliding draws at a length, and once   *)
(* it exceeds the suffix length of every existing id the next draw is      *)
(* returned, also when every id of the shorter lengths is taken.           *)
(***************************************************************************)
C12_NextIdTerminates ==
    /\ <>LoopReturned
    /\ [](out.val.len >= INITIAL_LEN /\ out.val.tries < MAX_RETRIES_PER_LEN)
    /\ [][ out'.val.len # out.val.len =>
             /\ out'.val.len = out.val.len + 1
             /\ out.val.tries = MAX_RETRIES_PER_LEN - 1
             /\ out'.val.tries = 0 ]_vars
    /\ [][ (out.op = "loop" /\ out'.val.len = out.val.len /\ ~out'.val.done) =>
             out'.val.tries = out.val.tries + 1 ]_vars
    /\ [][ (out.op = "loop" /\ out.val.len > LongestSuffix(out.arg[1], out.arg[2])) =>
             out'.val.done ]_vars

\* every suffix of INITIAL_LEN that can be drawn is taken, and an id with a
\* longer suffix is returned
C12_Witness ==
    /\ LoopReturned
    /\ out.arg[2] = << "c", "r" >>
    /\ { ExistingPool[1], ExistingPool[2], ExistingPool[3] }
          \subseteq { out.arg[1][i] : i \in 1..Len(out.arg[1]) }
    /\ Len(out.val.id) = 3 + INITIAL_LEN + 1

(***************************************************************************)
(* The store under every command: add-memory, Mark, list, show, find and   *)
(* Open in any order, each of them with the ensure of both files it starts *)
(* with.                                                                   *)
(***************************************************************************)
StoreAdd ==
    /\ Len(memories_csv.rows) < MaxMem
    /\ \E text \in Texts :
         IF validate_text(read_text(text, << >>)) # ""
         THEN add_memory("what", text, << >>, clock, << >>, Env0)
         ELSE \E now \in Nows, rng \in SeqStreams(Len(memories_csv.rows)) :
                 add_memory("what", text, << >>, now, rng, Env0)

StoreMark ==
    /\ Len(handoffs_csv.rows) < MaxHand
    /\ \E window \in { 0, 1 } :
         IF mark_error(window) # ""
         THEN handoff_mark(window, clock, << >>, Env0)
         ELSE \E now \in Nows, rng \in SeqStreams(Len(handoffs_csv.rows)) :
                 handoff_mark(window, now, rng, Env0)

StoreList == \E n \in { 1, MaxMem } : list(n)

StoreShow == \E id_prefix \in { << "0", "0", "0", "0" >>, << "z", "z" >> } : show(id_prefix)

StoreFind == \E query \in { << "A" >> } : find(query, MaxMem)

StoreOpen == handoff_open(None, None)

NextStore == StoreAdd \/ StoreMark \/ StoreList \/ StoreShow \/ StoreFind \/ StoreOpen

SpecStore == Init /\ [][NextStore]_vars

IsPrefix(a, b) == Len(a) <= Len(b) /\ SubSeq(b, 1, Len(a)) = a

MemsAfter == read_memories(memories_csv')
HandsAfter == read_handoffs(handoffs_csv')

(***************************************************************************)
(* C13.  Both logs are append-only: under every command the records of a   *)
(* log before it are an unchanged prefix of the records after it; an       *)
(* add-memory that succeeds appends one memory row and no checkpoint row,  *)
(* a Mark that succeeds appends one checkpoint row and no memory row, and  *)
(* every other command, with its ensure of files that exist, appends       *)
(* nothing.                                                                *)
(***************************************************************************)
C13_AppendOnly ==
    [][ /\ IsPrefix(Mems, MemsAfter)
        /\ IsPrefix(Hands, HandsAfter)
        /\ IF out'.op = "add" /\ out'.err = ""
           THEN Len(MemsAfter) = Len(Mems) + 1 /\ HandsAfter = Hands
           ELSE IF out'.op = "mark" /\ out'.err = ""
           THEN Len(HandsAfter) = Len(Hands) + 1 /\ MemsAfter = Mems
           ELSE MemsAfter = Mems /\ HandsAfter = Hands ]_vars

\* both logs hold rows and each kind of command has run on them: the last one
\* read the store that two adds and two marks built
C13_Witness ==
    /\ Len(Mems) >= 2
    /\ Len(Hands) >= 2
    /\ out.op \in { "list", "show", "find", "open" }
    /\ out.err = ""

AddedNow == out.op = "add" /\ out.err = ""

(***************************************************************************)
(* C14.  After add-memory of a valid text returns id X, show X (the full   *)
(* id) returns the text and the kind that were given, X begins with "cr-", *)
(* X differs from every id the log held before, and a listing with a limit *)
(* of at least the entry count has the entry.                              *)
(***************************************************************************)
C14_AddThenShow ==
    AddedNow =>
        LET X == out.val
            shown == show_memory(Mems, X)
            before == SubSeq(Mems, 1, Len(Mems) - 1)
            listed == list_memories(Mems, Len(Mems))
        IN  /\ shown.ok
            /\ shown.val.id = X
            /\ shown.val.kind = out.arg[1]
            /\ shown.val.text = Unwrap(out.arg[2])
            /\ starts_with(X, << "c", "r", "-" >>)
            /\ \A i \in 1..Len(before) : before[i].id # X
            /\ \E i \in 1..Len(listed) :
                   listed[i][1] = X /\ listed[i][2] = out.arg[1]
                                    /\ listed[i][3] = Unwrap(out.arg[2])

(***************************************************************************)
(* add-memory under every kind of text: given as the argument or read from *)
(* standard input, empty, of one character, of MAX_TEXT_CHARS characters   *)
(* and of one more, and with line breaks inside and at the end.  A text is *)
(* the sequence of its characters (Unicode scalar values).                 *)
(***************************************************************************)
Chars(n, c) == [ i \in 1..n |-> c ]

ArgTexts ==
    { << >>, << "a" >>, Chars(MAX_TEXT_CHARS, "a"), Chars(MAX_TEXT_CHARS + 1, "a"),
      Chars(MAX_TEXT_CHARS - 1, "a") \o << "," >>,
      << "a", "\n", "b" >>, << "a", "\r" >>, << "\n" >> }

StdinTexts ==
    { << >>, << "\n" >>, << "a", "\n" >>, << "a", "\r", "\n" >>, << "a", "\n", "b", "\n" >>,
      Chars(MAX_TEXT_CHARS, "a") \o << "\n" >>, Chars(MAX_TEXT_CHARS + 1, "a") }

TextInputs ==
    { << Some(t), << >> >> : t \in ArgTexts } \cup { << None, t >> : t \in StdinTexts }

AddText ==
    /\ Len(memories_csv.rows) < MaxMem
    /\ \E kind \in { "what", "why" }, input \in TextInputs :
         IF validate_text(read_text(input[1], input[2])) # ""
         THEN add_memory(kind, input[1], input[2], clock, << >>, Env0)
         ELSE \E now \in NextNow, rng \in SeqStreams(Len(memories_csv.rows)) :
                 add_memory(kind, input[1], input[2], now, rng, Env0)

NextText == AddText

SpecText == Init /\ [][NextText]_vars

HasLineBreak(t) == \E i \in 1..Len(t) : t[i] \in { "\n", "\r" }

ValidationErrors == { "text is empty", "too long", "newlines are not allowed" }

(***************************************************************************)
(* C15.  add-memory fails with a validation error and appends no memory    *)
(* entry whenever the text is empty, has more than 100 characters (Unicode *)
(* scalar values) or holds a line break; a text of exactly 100 characters  *)
(* is accepted.  The text is the argument, or standard input without its   *)
(* trailing line breaks.                                                   *)
(***************************************************************************)
C15_TextValidation ==
    [][ out'.op = "add" =>
          LET t == read_text(out'.arg[2], out'.arg[3])
          IN  /\ (t = << >> \/ Len(t) > 100 \/ HasLineBreak(t)) =>
                     /\ out'.err \in ValidationErrors
                     /\ MemsAfter = Mems
              /\ (Len(t) = 100 /\ ~HasLineBreak(t)) =>
                     /\ out'.err = ""
                     /\ Len(MemsAfter) = Len(Mems) + 1
                     /\ Last(MemsAfter).text = t ]_vars

\* a text of 101 characters is refused on a log whose last entry has 100
C15_Witness ==
    /\ out.op = "add"
    /\ out.err = "too long"
    /\ Len(read_text(out.arg[2], out.arg[3])) = MAX_TEXT_CHARS + 1
    /\ Len(Mems) >= 1
    /\ Len(Last(Mems).text) = MAX_TEXT_CHARS

(***************************************************************************)
(* C16.  Mark fails and appends no checkpoint whenever the window is 0     *)
(* ("window must be >= 1") or the memory log holds no entry ("no memories  *)
(* found"); both logs then hold the records they held before.              *)
(***************************************************************************)
C16_MarkRefused ==
    [][ (HandoffMark /\ out'.op = "mark" /\ (out'.arg[1] = 0 \/ Mems = << >>)) =>
          /\ out'.err = (IF out'.arg[1] = 0 THEN "window must be >= 1"
                                           ELSE "no memories found")
          /\ HandsAfter = Hands
          /\ MemsAfter = Mems ]_vars

\* a Mark with window 0 has been refused on logs that hold entries and a
\* checkpoint
C16_Witness ==
    /\ out.op = "mark"
    /\ out.arg[1] = 0
    /\ out.err = "window must be >= 1"
    /\ Len(Mems) >= 2
    /\ Len(Hands) >= 1
    /\ Last(Hands).to_memory_id # Last(Mems).id

(***************************************************************************)
(* Open on a store whose checkpoint names entries the memory log does not  *)
(* hold (a log that was cut or edited by hand): as InitOpen, with an id of *)
(* no entry among the choices of from_memory_id and to_memory_id.          *)
(***************************************************************************)
\* cr-zzzz
MissingId == << "c", "r", "-", "z", "z", "z", "z" >>

DanglingCheckpointsOver(n) ==
    { [ h EXCEPT !.from_memory_id = from, !.to_memory_id = to ] :
        h \in CheckpointsOver(n),
        from \in { None, Some(MissingId), Some(RowId(<< "c", "r" >>, 0)) },
        to \in { MissingId, RowId(<< "c", "r" >>, n - 1) } }

InitDangling ==
    /\ memories_csv \in { FileOf(MEMORIES_HEADER, rows) : rows \in AnyOrderMemories }
    /\ handoffs_csv \in { FileOf(HANDOFFS_HEADER, << ser_handoff(h) >>) :
                            h \in DanglingCheckpointsOver(Len(memories_csv.rows)) }
    /\ clock = ClockStart + MaxTicks
    /\ out = Outcome("none", << >>, "", << >>)

SpecDangling == InitDangling /\ [][NextOpen]_vars

\* Open has chosen the one checkpoint of the store
ChosenCheckpoint ==
    /\ out.op = "open"
    /\ out.err \notin { "no handoff matching id prefix", "handoff id prefix is ambiguous",
                        "no handoffs found" }

(***************************************************************************)
(* C17.  Open fails with a not-found error when the checkpoint's           *)
(* to_memory_id is the id of no memory entry; when from_memory_id is       *)
(* present and is the id of no memory entry, Open succeeds and the slice   *)
(* has no lower bound: it is the slice of the same checkpoint without      *)
(* from_memory_id.                                                         *)
(***************************************************************************)
C17_DanglingReferences ==
    ChosenCheckpoint =>
        LET h == Hands[1]
            unbounded == [ h EXCEPT !.from_memory_id = None ]
        IN  /\ EntriesOf(h.to_memory_id) = {} => out.err = "handoff target memory not found"
            /\ ( /\ EntriesOf(h.to_memory_id) # {}
                 /\ h.from_memory_id # None
                 /\ EntriesOf(Unwrap(h.from_memory_id)) = {} ) =>
                   /\ out.err = ""
                   /\ out.val.slice = open_result(Mems, unbounded, out.arg[2]).val.slice
                   /\ { out.val.slice[i] : i \in 1..Len(out.val.slice) }
                        = { Mems[j] : j \in { k \in 1..Len(Mems) : AtOrBelowTo(Mems[k], h) } }

\* Open has succeeded on a checkpoint whose `from` entry is missing, and the
\* slice holds an entry as old as any in the log
C17_Witness ==
    /\ Opened
    /\ Hands[1].from_memory_id = Some(MissingId)
    /\ out.val.total >= 2
    /\ \E i \in 1..Len(out.val.slice) :
          \A j \in 1..Len(Mems) : TsNum(out.val.slice[i].ts_utc) <= TsNum(Mems[j].ts_utc)

(***************************************************************************)
(* list as a function of the memory log: a log of up to MaxMem entries in  *)
(* any timestamp order, listed once with a limit from 0 to MaxMem + 1.     *)
(***************************************************************************)
InitList ==
    /\ memories_csv \in { FileOf(MEMORIES_HEADER, rows) : rows \in AnyOrderMemories }
    /\ handoffs_csv = FileOf(HANDOFFS_HEADER, << >>)
    /\ clock = ClockStart + MaxTicks
    /\ out = Outcome("none", << >>, "", << >>)

ListLimits == 0..(MaxMem + 1)

List ==
    /\ out.op = "none"
    /\ \E n \in ListLimits : list(n)

NextList == List

SpecList == InitList /\ [][NextList]_vars

Listed == out.op = "list"

\* place in the log of the entry a listed row shows
PlaceOf(row) == CHOOSE k \in 1..Len(Mems) : Mems[k].id = row[1]

\* entry at place a goes before entry at place b: newer, or as old and
\* appended earlier
GoesBefore(a, b) ==
    \/ TsNum(Mems[a].ts_utc) > TsNum(Mems[b].ts_utc)
    \/ TsNum(Mems[a].ts_utc) = TsNum(Mems[b].ts_utc) /\ a < b

(***************************************************************************)
(* C18.  list(n) returns the min(n, count) memory entries with the largest *)
(* timestamps, newest first; entries with equal timestamps keep their      *)
(* append order relative to each other.                                    *)
(***************************************************************************)
C18_ListNewestFirstStable ==
    Listed =>
        LET rows == out.val
            n == out.arg[1]
            places == { PlaceOf(rows[i]) : i \in 1..Len(rows) }
        IN  /\ Len(rows) = (IF n <= Len(Mems) THEN n ELSE Len(Mems))
            /\ \A i \in 1..Len(rows) :
                   /\ \E k \in 1..Len(Mems) : Mems[k].id = rows[i][1]
                   /\ rows[i] = to_memory_row(Mems[PlaceOf(rows[i])])
            /\ \A i, j \in 1..Len(rows) :
                   i < j => GoesBefore(PlaceOf(rows[i]), PlaceOf(rows[j]))
            /\ \A a \in places : \A b \in (1..Len(Mems)) \ places : GoesBefore(a, b)

\* the listing stops between two entries of one timestamp, and shows two
\* entries of one timestamp next to an older entry that was appended first
C18_Witness ==
    /\ Listed
    /\ Len(out.val) = 2
    /\ Len(Mems) = 3
    /\ out.val[1][4] = out.val[2][4]
    /\ TsNum(Mems[1].ts_utc) < TsNum(Mems[2].ts_utc)
    /\ Mems[2].ts_utc = Mems[3].ts_utc

(***************************************************************************)
(* The two logs as a store of records: a record is appended to a file that *)
(* was ensured, as every command does it, and the log is read back.  The   *)
(* optional fields are absent, hold a value, or hold the empty string      *)
(* (run_git returns the trimmed output of a git that exited with success,  *)
(* whatever it printed).                                                   *)
(***************************************************************************)
\* git_branch and git_head as git_info can return them
GitInfos ==
    { << None, None >>, << Some(<< "m" >>), Some(<< "h" >>) >>,
      << None, Some(<< "h" >>) >>, << Some(<< >>), Some(<< "h" >>) >> }

MemoryRecords(n) ==
    { [ MemoryAt(n + 1, ClockStart) EXCEPT !.git_branch = g[1], !.git_head = g[2] ] :
        g \in GitInfos }

HandoffRecords(n) ==
    { [ id |-> RowId(<< "h", "f" >>, n), ts_utc |-> to_rfc3339(ClockStart),
        from_memory_id |-> f[1], to_memory_id |-> RowId(<< "c", "r" >>, 1),
        suggested_window |-> f[2], cwd |-> Env0.cwd,
        git_branch |-> None, git_head |-> Some(<< "h" >>) ] :
        f \in { << None, 1 >>, << Some(RowId(<< "c", "r" >>, 0)), 12 >>, << Some(<< >>), 2 >> } }

AppendMemory ==
    /\ Len(memories_csv.rows) < MaxMem
    /\ \E rec \in MemoryRecords(Len(memories_csv.rows)) :
         /\ memories_csv' = append_memory(ensured_memories, rec)
         /\ out' = Outcome("append_memory", << rec >>, "", << >>)
    /\ UNCHANGED << handoffs_csv, clock >>

AppendHandoff ==
    /\ Len(handoffs_csv.rows) < MaxHand
    /\ \E rec \in HandoffRecords(Len(handoffs_csv.rows)) :
         /\ handoffs_csv' = append_handoff(ensured_handoffs, rec)
         /\ out' = Outcome("append_handoff", << rec >>, "", << >>)
    /\ UNCHANGED << memories_csv, clock >>

NextRoundTrip == AppendMemory \/ AppendHandoff

SpecRoundTrip == Init /\ [][NextRoundTrip]_vars

(***************************************************************************)
(* C19.  A record that is appended is read back as it was written: an      *)
(* optional field (git_branch, git_head, from_memory_id) that is absent is *)
(* read back as absent, one that has a value is read back with that value, *)
(* and every other field is read back as written.                          *)
(***************************************************************************)
C19_RoundTrip ==
    /\ out.op = "append_memory" => Last(Mems) = out.arg[1]
    /\ out.op = "append_handoff" => Last(Hands) = out.arg[1]

(***************************************************************************)
(* The resolver on logs in which rows share an id (two logs joined by a    *)
(* merge, or rows copied by hand): up to MaxMem rows of each kind, each    *)
(* with one of two ids and any timestamp; Show and Open by id are applied  *)
(* once.                                                                   *)
(***************************************************************************)
InitDuplicates ==
    /\ \E n \in 1..MaxMem :
         \E ids \in [ 1..n -> { 0, 1 } ], tss \in [ 1..n -> Instants ] :
           /\ memories_csv = FileOf(MEMORIES_HEADER,
                [ i \in 1..n |->
                    ser_memory([ MemoryAt(i, tss[i]) EXCEPT
                                   !.id = RowId(<< "c", "r" >>, ids[i]) ]) ])
           /\ handoffs_csv = FileOf(HANDOFFS_HEADER,
                [ i \in 1..n |->
                    ser_handoff([ id |-> RowId(<< "h", "f" >>, ids[i]),
                                  ts_utc |-> to_rfc3339(tss[i]),
                                  from_memory_id |-> None,
                                  to_memory_id |-> RowId(<< "c", "r" >>, ids[1]),
                                  suggested_window |-> 1, cwd |-> Env0.cwd,
                                  git_branch |-> Env0.git_branch,
                                  git_head |-> Env0.git_head ]) ])
    /\ clock = ClockStart + MaxTicks
    /\ out = Outcome("none", << >>, "", << >>)

\* a full id, a bare suffix, and the stem both ids have
ShowDuplicate ==
    /\ out.op = "none"
    /\ \E id_prefix \in { RowId(<< "c", "r" >>, 0), << "0", "0", "0", "1" >>,
                          << "c", "r", "-" >> } : show(id_prefix)

OpenDuplicate ==
    /\ out.op = "none"
    /\ \E id_prefix \in { RowId(<< "h", "f" >>, 0), << "0", "0", "0", "1" >>,
                          << "h", "f", "-" >> } : handoff_open(Some(id_prefix), None)

NextDuplicates == ShowDuplicate \/ OpenDuplicate

SpecDuplicates == InitDuplicates /\ [][NextDuplicates]_vars

(***************************************************************************)
(* C20.  When exactly one distinct id matches the input and more than one  *)
(* row carries that id, Open (for checkpoints) and show (for memory        *)
(* entries) return the row with the most recent timestamp among the rows   *)
(* that share the id.                                                      *)
(***************************************************************************)
C20_DuplicateRowsMostRecent ==
    /\ (Shown /\ Cardinality(ShowMatching) = 1) =>
          /\ out.err = ""
          /\ \A k \in 1..Len(Mems) :
                 Mems[k].id = out.val.id =>
                     TsNum(out.val.ts_utc) >= TsNum(Mems[k].ts_utc)
    /\ (OpenedById /\ Cardinality(OpenMatching) = 1) =>
          /\ out.err = ""
          /\ \A k \in 1..Len(Hands) :
                 Hands[k].id = out.val.handoff.id =>
                     TsNum(out.val.handoff.ts_utc) >= TsNum(Hands[k].ts_utc)

(***************************************************************************)
(* C21.  Every checkpoint a successful Mark created (the first one or a    *)
(* chained one, any window >= 1, entries of one timestamp included) has,   *)
(* in every later state, an Open slice that holds the checkpoint's own     *)
(* `to` entry, so the total Open reports is at least 1.                    *)
(***************************************************************************)
C21_SliceHoldsTo ==
    \A i \in 1..Len(Hands) :
        LET res == open_result(Mems, Hands[i], None)
        IN  /\ res.ok
            /\ res.val.total >= 1
            /\ \E t \in EntriesOf(Hands[i].to_memory_id) : t \in SliceSet(Hands[i])

(***************************************************************************)
(* C22.  The slice of a checkpoint is fixed when it is marked: no step of  *)
(* add-memory or Mark puts the entry it appends into the Open slice of a   *)
(* checkpoint that exists already, and the set of entries Open yields for  *)
(* such a checkpoint is the same after the step as before it.              *)
(***************************************************************************)
\* the Open slice of checkpoint h in the state a step leads to
SliceSetAfter(h) ==
    LET res == open_result(MemsAfter, h, None)
    IN  IF res.ok THEN { res.val.slice[i] : i \in 1..Len(res.val.slice) } ELSE {}

C22_SliceFixedAtMark ==
    [][ \A i \in 1..Len(Hands) :
            /\ \A j \in (Len(Mems) + 1)..Len(MemsAfter) :
                   MemsAfter[j] \notin SliceSetAfter(Hands[i])
            /\ SliceSetAfter(Hands[i]) = SliceSet(Hands[i]) ]_vars

(***************************************************************************)
(* C23.  Mark never rejects new work.  A Mark with window >= 1 that is     *)
(* taken right after a successful add-memory (so an entry was appended     *)
(* since the last successful Mark), or while there is no checkpoint and    *)
(* the memory log is not empty, succeeds, and the `to` of the checkpoint   *)
(* it appends is not the `to` of the checkpoint before it; the error "no   *)
(* new memories since last handoff" is given only when no entry was        *)
(* appended since the last successful Mark.                                *)
(***************************************************************************)
\* states in which it is certain that there is work no checkpoint covers
NewWork ==
    \/ AddedNow
    \/ Hands = << >> /\ Mems # << >>

C23_MarkTakesNewWork ==
    [][ MarkStep =>
            /\ NewWork =>
                  /\ out'.err = ""
                  /\ Len(HandsAfter) = Len(Hands) + 1
                  /\ \E j \in 1..Len(Mems) : Mems[j].id = Last(HandsAfter).to_memory_id
                  /\ Hands # << >> =>
                         Last(HandsAfter).to_memory_id # Last(Hands).to_memory_id
            /\ out'.err = "no new memories since last handoff" => ~NewWork ]_vars

====
